---- MODULE Spec2Model ----
(***************************************************************************)
(* State-machine model of api_markitdown.py: the FastAPI adapter around    *)
(* MarkItDown.  The conversion handlers are `async def` without an await,  *)
(* so one conversion request runs at a time on the event loop (pc, req,    *)
(* loc); configure_llm is a plain `def`, run on worker threads, so its     *)
(* calls interleave between the attribute reads and writes on md (cfg).    *)
(*                                                                         *)
(* Names (file names, temp paths, zip entry names, markdown texts, error   *)
(* messages) are sequences of string tokens.                               *)
(***************************************************************************)
EXTENDS Integers, Sequences, FiniteSets, TLC

VARIABLES disk, pc, req, loc, resp, log, md_client, md_model, cfg, cfg_resp

vars == <<disk, pc, req, loc, resp, log, md_client, md_model, cfg, cfg_resp>>

convVars == <<disk, pc, req, loc, resp, log>>

llmVars == <<md_client, md_model, cfg, cfg_resp>>

(***************************************************************************)
(* Bounds of the model.                                                    *)
(***************************************************************************)
MaxFiles == 2

MaxEntries == 3

MaxLeaked == 1

NumThreads == 2

None == "None"

(***************************************************************************)
(* Inputs.                                                                 *)
(***************************************************************************)
\* File contents.  <<>> is an empty file, <<"bad">> is one the converter rejects.
Contents == {<<>>, <<"doc">>, <<"bad">>}

Filenames == {<<>>, <<"a", ".", "pdf">>, <<"b", ".", "csv">>}

Uploads == [filename : Filenames, data : Contents]

Urls == {<<"http://ok">>, <<"http://down">>}

\* Optional[str]: absent (None), or a string
NoStr == [given |-> FALSE, val |-> <<>>]

Str(s) == [given |-> TRUE, val |-> s]

TextFields == {NoStr, Str(<<>>), Str(<<"doc">>)}

TextPayloads == [html : TextFields, csv : TextFields, json_text : TextFields, xml : TextFields]

ZipNames == {<<"a", ".", "t">>, <<"d", "/">>, <<"d", "/", "b">>}

ZipEntries == [name : ZipNames, data : {<<"doc">>, <<"bad">>}]

SeqsUpTo(S, n) == UNION {[1..k -> S] : k \in 0..n}

\* An uploaded archive: its entries in listing order, or bytes that are no zip.
NotZip == [iszip |-> FALSE, entries |-> <<>>]

Archives == {[iszip |-> TRUE, entries |-> e] : e \in SeqsUpTo(ZipEntries, MaxEntries)} \cup {NotZip}

ZipUploads == [filename : {<<"z", ".", "zip">>}, data : Archives]

(***************************************************************************)
(* Module namespace (the names the handlers can resolve at run time).      *)
(***************************************************************************)
ModuleNames ==
    {"io", "os", "tempfile", "List", "Optional", "Literal", "litellm",
     "FastAPI", "File", "UploadFile", "HTTPException", "Query", "Body",
     "BaseModel", "AnyHttpUrl", "MarkItDown", "md", "app"}

NameError(n) == <<"name", n, "is not defined">>

(***************************************************************************)
(* The external converter, md.convert: a function of what it is given.     *)
(***************************************************************************)
MdConvert(content) ==
    CASE content = <<"bad">> -> [raised |-> TRUE, msg |-> <<"cannot convert">> \o content]
      [] content = <<"http://down">> -> [raised |-> TRUE, msg |-> <<"cannot fetch">> \o content]
      [] content = <<>> -> [raised |-> FALSE, text_content |-> <<>>, str |-> <<"str">>]
      [] OTHER -> [raised |-> FALSE, text_content |-> <<"md">> \o content, str |-> <<"str">> \o content]

\* getattr(result, "text_content", None) or str(result)
TextOf(result) ==
    IF result.text_content # <<>> THEN result.text_content ELSE result.str

\* os.path.getsize
GetSize(content) ==
    CASE content = <<>> -> 0
      [] content = <<"doc">> -> 3
      [] content = <<"bad">> -> 5
      [] OTHER -> 1

(***************************************************************************)
(* The temp directory: a function from path to content.  A new file gets  *)
(* a name no file on disk has.                                             *)
(***************************************************************************)
Exists(d, path) == path \in DOMAIN d

FreshName(d) ==
    LET free(n) == ~ \E p \in DOMAIN d : p[2] = ToString(n)
    IN  ToString(CHOOSE n \in 1..(Cardinality(DOMAIN d) + 1) :
                    free(n) /\ \A m \in 1..(n - 1) : ~ free(m))

\* tempfile.NamedTemporaryFile(delete=False, suffix=...) / tempfile.mktemp
TempPath(d, suffix) == <<"tmp", FreshName(d)>> \o suffix

WriteFile(d, path, content) ==
    [p \in DOMAIN d \cup {path} |-> IF p = path THEN content ELSE d[p]]

\* os.unlink (the handlers swallow its failure)
Unlink(d, path) == [p \in DOMAIN d \ {path} |-> d[p]]

ReadFile(d, path) == d[path]

Files(d) == DOMAIN d

Ev(op, path, content) == [op |-> op, path |-> path, content |-> content]

\* _save_upload_to_temp: the suffix of the temp name
UploadSuffix(filename) == IF filename # <<>> THEN <<"_">> \o filename ELSE <<>>

\* _convert_to_markdown_from_path on a file of the disk d
ConvertPath(d, path) ==
    LET content == ReadFile(d, path)
        result  == MdConvert(content)
    IN  IF result.raised
        THEN [raised |-> TRUE, msg |-> result.msg]
        ELSE [raised |-> FALSE,
              out |-> [markdown |-> TextOf(result),
                       source |-> <<"file">>,
                       filename |-> path,
                       bytes |-> IF Exists(d, path) THEN GetSize(content) ELSE None,
                       content_type |-> None]]

(***************************************************************************)
(* Responses.                                                              *)
(***************************************************************************)
NoResp == [status |-> 0, kind |-> "none", detail |-> <<>>, body |-> <<>>]

NoReq == [endpoint |-> "none"]

NoLoc == [i |-> 0, names |-> <<>>, lines |-> <<>>, results |-> <<>>, temp |-> <<>>]

\* raise HTTPException(status_code=400, detail=...)
HttpError(status, detail) ==
    [status |-> status, kind |-> "error", detail |-> detail, body |-> <<>>]

\* A response built by a class of fastapi.responses: the name must resolve.
Respond(cls, kind, body) ==
    IF cls \in ModuleNames
    THEN [raised |-> FALSE, resp |-> [status |-> 200, kind |-> kind, detail |-> <<>>, body |-> body]]
    ELSE [raised |-> TRUE, msg |-> NameError(cls)]

\* md = MarkItDown(): no client, no model
NoClient == [api_key |-> <<>>, model |-> <<>>, provider |-> "unset", model_name |-> <<>>]

NoConfig == [provider |-> "unset", api_key |-> <<>>, model |-> <<>>]

Init ==
    /\ disk = [p \in {} |-> <<>>]
    /\ pc = "idle"
    /\ req = NoReq
    /\ loc = NoLoc
    /\ resp = NoResp
    /\ log = <<>>
    /\ md_client = NoClient
    /\ md_model = <<>>
    /\ cfg = [t \in 1..NumThreads |-> [pc |-> "idle", config |-> NoConfig, client |-> NoClient, name |-> <<>>]]
    /\ cfg_resp = [t \in 1..NumThreads |-> NoResp]

(***************************************************************************)
(* POST /convert/file                                                      *)
(***************************************************************************)
ConvertFile ==
    /\ pc = "idle"
    /\ \E upload \in Uploads, download \in BOOLEAN :
        LET temp_path == TempPath(disk, UploadSuffix(upload.filename))
            d1        == WriteFile(disk, temp_path, upload.data)
            conv      == ConvertPath(d1, temp_path)
            md_path   == TempPath(d1, <<".", "md">>)
            d2        == WriteFile(d1, md_path, conv.out.markdown)
            fileResp  == Respond("FileResponse", "file", <<md_path>>)
            jsonResp  == Respond("JSONResponse", "json", <<conv.out>>)
            log1      == <<Ev("create", temp_path, upload.data), Ev("convert", temp_path, upload.data)>>
            fin       == Ev("unlink", temp_path, <<>>)
        IN  /\ download => Cardinality(Files(disk)) < MaxLeaked
            /\ req' = [endpoint |-> "file", file |-> upload, download |-> download]
            /\ IF conv.raised
               THEN /\ resp' = HttpError(400, conv.msg)
                    /\ disk' = Unlink(d1, temp_path)
                    /\ log' = log1 \o <<fin>>
               ELSE IF download
               THEN /\ resp' = IF fileResp.raised THEN HttpError(400, fileResp.msg) ELSE fileResp.resp
                    /\ disk' = Unlink(d2, temp_path)
                    /\ log' = log1 \o <<Ev("create", md_path, conv.out.markdown), fin>>
               ELSE /\ resp' = IF jsonResp.raised THEN HttpError(400, jsonResp.msg) ELSE jsonResp.resp
                    /\ disk' = Unlink(d1, temp_path)
                    /\ log' = log1 \o <<fin>>
    /\ pc' = "done"
    /\ UNCHANGED <<loc, llmVars>>

(***************************************************************************)
(* POST /convert/url                                                       *)
(***************************************************************************)
ConvertUrl ==
    /\ pc = "idle"
    /\ \E url \in Urls, download \in BOOLEAN :
        LET result   == MdConvert(url)
            out      == [markdown |-> TextOf(result), source |-> url, filename |-> None,
                         bytes |-> None, content_type |-> None]
            md_path  == TempPath(disk, <<"_url", ".", "md">>)
            fileResp == Respond("FileResponse", "file", <<md_path>>)
        IN  /\ download => Cardinality(Files(disk)) < MaxLeaked
            /\ req' = [endpoint |-> "url", url |-> url, download |-> download]
            /\ IF result.raised
               THEN /\ resp' = HttpError(400, result.msg)
                    /\ disk' = disk
                    /\ log' = <<Ev("convert", <<>>, url)>>
               ELSE IF download
               THEN /\ resp' = IF fileResp.raised THEN HttpError(400, fileResp.msg) ELSE fileResp.resp
                    /\ disk' = WriteFile(disk, md_path, out.markdown)
                    /\ log' = <<Ev("convert", <<>>, url), Ev("create", md_path, out.markdown)>>
               ELSE /\ resp' = [status |-> 200, kind |-> "json", detail |-> <<>>, body |-> <<out>>]
                    /\ disk' = disk
                    /\ log' = <<Ev("convert", <<>>, url)>>
    /\ pc' = "done"
    /\ UNCHANGED <<loc, llmVars>>

(***************************************************************************)
(* POST /convert/text                                                      *)
(***************************************************************************)
\* Python truthiness of an Optional[str]
Truthy(field) == field.given /\ field.val # <<>>

\* faulty variant of AnyField: the fields tested with `is not None`
AnyFieldGiven(payload) ==
    payload.html.given \/ payload.csv.given \/ payload.json_text.given \/ payload.xml.given

\* any([payload.html, payload.csv, payload.json_text, payload.xml])
AnyField(payload) ==
    Truthy(payload.html) \/ Truthy(payload.csv) \/ Truthy(payload.json_text) \/ Truthy(payload.xml)

\* the if/elif chain on `is not None`: the suffix and the bytes written
ChooseSnippet(payload) ==
    IF payload.html.given THEN [suffix |-> <<".", "html">>, content |-> payload.html.val]
    ELSE IF payload.csv.given THEN [suffix |-> <<".", "csv">>, content |-> payload.csv.val]
    ELSE IF payload.json_text.given THEN [suffix |-> <<".", "json">>, content |-> payload.json_text.val]
    ELSE [suffix |-> <<".", "xml">>, content |-> payload.xml.val]

ConvertText ==
    /\ pc = "idle"
    /\ \E payload \in TextPayloads :
        LET pick      == ChooseSnippet(payload)
            temp_path == TempPath(disk, pick.suffix)
            d1        == WriteFile(disk, temp_path, pick.content)
            conv      == ConvertPath(d1, temp_path)
        IN  /\ req' = [endpoint |-> "text", payload |-> payload]
            /\ IF ~ AnyField(payload)
               THEN /\ resp' = HttpError(400, <<"Envie ao menos um dos campos">>)
                    /\ disk' = disk
                    /\ log' = <<>>
               ELSE /\ resp' = IF conv.raised
                               THEN HttpError(400, conv.msg)
                               ELSE [status |-> 200, kind |-> "json", detail |-> <<>>, body |-> <<conv.out>>]
                    /\ disk' = Unlink(d1, temp_path)
                    /\ log' = <<Ev("create", temp_path, pick.content),
                                Ev("convert", temp_path, pick.content),
                                Ev("unlink", temp_path, <<>>)>>
    /\ pc' = "done"
    /\ UNCHANGED <<loc, llmVars>>

(***************************************************************************)
(* POST /convert/files                                                     *)
(***************************************************************************)
\* An exception that leaves the handler: the server answers 500.
Unhandled(msg) ==
    [status |-> 500, kind |-> "unhandled", detail |-> <<"Internal Server Error">>, body |-> <<>>]

\* files: List[UploadFile] = File(...): a required field
FilesStart ==
    /\ pc = "idle"
    /\ \E files \in SeqsUpTo(Uploads, MaxFiles), as_ndjson \in BOOLEAN :
        /\ req' = [endpoint |-> "files", files |-> files, as_ndjson |-> as_ndjson]
        /\ IF Len(files) = 0
           THEN /\ resp' = HttpError(422, <<"Field required">>)
                /\ pc' = "done"
                /\ loc' = loc
           ELSE /\ resp' = resp
                /\ pc' = "files_loop"
                /\ loc' = [NoLoc EXCEPT !.i = 1]
    /\ UNCHANGED <<disk, log, llmVars>>

\* one iteration of `for f in files`
FilesStep ==
    /\ pc = "files_loop"
    /\ loc.i <= Len(req.files)
    /\ LET f         == req.files[loc.i]
           temp_path == TempPath(disk, UploadSuffix(f.filename))
           d1        == WriteFile(disk, temp_path, f.data)
           conv      == ConvertPath(d1, temp_path)
       IN  /\ disk' = Unlink(d1, temp_path)
           /\ log' = log \o <<Ev("create", temp_path, f.data), Ev("convert", temp_path, f.data),
                              Ev("unlink", temp_path, <<>>)>>
           /\ IF conv.raised
              THEN /\ resp' = Unhandled(conv.msg)
                   /\ pc' = "done"
                   /\ loc' = loc
              ELSE /\ resp' = resp
                   /\ pc' = pc
                   /\ loc' = [loc EXCEPT !.i = loc.i + 1,
                                         !.results = Append(loc.results, conv.out),
                                         !.lines = IF req.as_ndjson THEN Append(loc.lines, conv.out)
                                                   ELSE loc.lines]
    /\ UNCHANGED <<req, llmVars>>

\* after the loop: the payload of lines, or the aggregate object
FilesFinish ==
    /\ pc = "files_loop"
    /\ loc.i > Len(req.files)
    /\ LET text == Respond("PlainTextResponse", "ndjson", loc.lines)
       IN  resp' = IF req.as_ndjson
                   THEN IF text.raised THEN Unhandled(text.msg) ELSE text.resp
                   ELSE [status |-> 200, kind |-> "items", detail |-> <<>>, body |-> loc.results]
    /\ pc' = "done"
    /\ UNCHANGED <<disk, req, loc, log, llmVars>>

(***************************************************************************)
(* POST /convert/zip                                                       *)
(***************************************************************************)
\* n.endswith('/')
EndsWithSlash(n) == Len(n) > 0 /\ n[Len(n)] = "/"

\* str.rfind of a one-character string, 0 when absent
RFind(s, c) ==
    IF \E k \in 1..Len(s) : s[k] = c
    THEN CHOOSE k \in 1..Len(s) : s[k] = c /\ \A j \in (k + 1)..Len(s) : s[j] # c
    ELSE 0

\* os.path.splitext(name)[1]
SplitExt(p) ==
    LET sep == RFind(p, "/")
        dot == RFind(p, ".")
    IN  IF dot > sep /\ \E k \in (sep + 1)..(dot - 1) : p[k] # "."
        THEN SubSeq(p, dot, Len(p))
        ELSE <<>>

RECURSIVE SelectNames(_)
\* [n for n in z.namelist() if not n.endswith('/')]
SelectNames(entries) ==
    IF entries = <<>> THEN <<>>
    ELSE LET rest == SelectNames(Tail(entries))
         IN  IF EndsWithSlash(Head(entries).name) THEN rest
             ELSE <<Head(entries).name>> \o rest

\* z.open(name).read(): the archive's last member of that name
ZipRead(entries, name) ==
    LET k == CHOOSE k \in 1..Len(entries) :
                /\ entries[k].name = name
                /\ \A j \in (k + 1)..Len(entries) : entries[j].name # name
    IN  entries[k].data

\* faulty variant of ZipFailure: the records converted so far are returned
ZipFailurePartial(msg, lines) ==
    [status |-> 200, kind |-> "ndjson", detail |-> <<>>, body |-> lines]

\* except Exception as e: raise HTTPException(status_code=400, detail=str(e))
\* (the list `lines` is in scope and dropped)
ZipFailure(msg, lines) == HttpError(400, msg)

ZipStart ==
    /\ pc = "idle"
    /\ \E upload \in ZipUploads :
        LET temp_zip == TempPath(disk, UploadSuffix(upload.filename))
            d1       == WriteFile(disk, temp_zip, upload.data)
            z        == ReadFile(d1, temp_zip)
        IN  /\ req' = [endpoint |-> "zip", file |-> upload]
            /\ IF ~ z.iszip
               THEN /\ resp' = HttpError(400, <<"File is not a zip file">>)
                    /\ disk' = Unlink(d1, temp_zip)
                    /\ log' = <<Ev("create", temp_zip, <<"zip">>), Ev("unlink", temp_zip, <<>>)>>
                    /\ pc' = "done"
                    /\ loc' = loc
               ELSE /\ resp' = resp
                    /\ disk' = d1
                    /\ log' = <<Ev("create", temp_zip, <<"zip">>)>>
                    /\ pc' = "zip_loop"
                    /\ loc' = [NoLoc EXCEPT !.i = 1, !.names = SelectNames(z.entries),
                                            !.temp = temp_zip]
    /\ UNCHANGED llmVars

\* one iteration of `for name in names`
ZipStep ==
    /\ pc = "zip_loop"
    /\ loc.i <= Len(loc.names)
    /\ LET name    == loc.names[loc.i]
           z       == ReadFile(disk, loc.temp)
           data    == ZipRead(z.entries, name)
           path    == TempPath(disk, SplitExt(name))
           d1      == WriteFile(disk, path, data)
           conv    == ConvertPath(d1, path)
           d2      == Unlink(d1, path)
           log1    == log \o <<Ev("create", path, data), Ev("convert", path, data),
                               Ev("unlink", path, <<>>)>>
       IN  IF conv.raised
           THEN /\ resp' = ZipFailure(conv.msg, loc.lines)
                /\ disk' = Unlink(d2, loc.temp)
                /\ log' = log1 \o <<Ev("unlink", loc.temp, <<>>)>>
                /\ pc' = "done"
                /\ loc' = loc
           ELSE /\ resp' = resp
                /\ disk' = d2
                /\ log' = log1
                /\ pc' = pc
                /\ loc' = [loc EXCEPT !.i = loc.i + 1,
                                      !.lines = Append(loc.lines,
                                          [filename |-> name, markdown |-> conv.out.markdown])]
    /\ UNCHANGED <<req, llmVars>>

\* after the loop: the payload, the response, the finally
ZipFinish ==
    /\ pc = "zip_loop"
    /\ loc.i > Len(loc.names)
    /\ LET text == Respond("PlainTextResponse", "ndjson", loc.lines)
       IN  resp' = IF text.raised THEN HttpError(400, text.msg) ELSE text.resp
    /\ disk' = Unlink(disk, loc.temp)
    /\ log' = log \o <<Ev("unlink", loc.temp, <<>>)>>
    /\ pc' = "done"
    /\ UNCHANGED <<req, loc, llmVars>>

(***************************************************************************)
(* The response has been sent; the server takes the next request.          *)
(***************************************************************************)
NextRequest ==
    /\ pc = "done"
    /\ pc' = "idle"
    /\ req' = NoReq
    /\ loc' = NoLoc
    /\ resp' = NoResp
    /\ log' = <<>>
    /\ UNCHANGED <<disk, llmVars>>

Next ==
    \/ ConvertFile
    \/ ConvertUrl
    \/ ConvertText
    \/ FilesStart
    \/ FilesStep
    \/ FilesFinish
    \/ ZipStart
    \/ ZipStep
    \/ ZipFinish
    \/ NextRequest

Spec == Init /\ [][Next]_vars

(***************************************************************************)
(* POST /config/llm.  A plain `def`: each call runs on a worker thread,    *)
(* and calls interleave between the reads and writes of md's attributes.   *)
(***************************************************************************)
Threads == 1..NumThreads

\* LlmConfigIn.provider: Literal["openai", "gemini", "groq", "claude"]
Providers == {"openai", "gemini", "groq", "claude"}

\* the providers requests name: two of the set (one prefixed, one not), one outside it
ProviderInputs == {"gemini", "claude", "azure"}

Models == {<<"m1">>, <<"m2">>}

ApiKeys == {<<"k1">>}

Configs == [provider : ProviderInputs, api_key : ApiKeys, model : Models]

\* faulty variant of ValidConfig: provider declared as a plain str
ValidConfigAnyProvider(config) == config.provider \in ProviderInputs

\* pydantic's validation of the request body against LlmConfigIn
ValidConfig(config) == config.provider \in Providers

\* LiteLLMClient.__init__
LiteLLMClient(api_key, model, provider) ==
    [api_key |-> api_key, model |-> model, provider |-> provider,
     model_name |-> IF provider = "gemini" THEN <<"gemini/">> \o model
                    ELSE IF provider = "groq" THEN <<"groq/">> \o model
                    ELSE model]

\* the request is validated, then line 144's right-hand side is evaluated
CfgCall(t) ==
    /\ cfg[t].pc = "idle"
    /\ \E config \in Configs :
        IF ~ ValidConfig(config)
        THEN /\ cfg' = [cfg EXCEPT ![t] = [pc |-> "idle", config |-> config,
                                           client |-> NoClient, name |-> <<>>]]
             /\ cfg_resp' = [cfg_resp EXCEPT ![t] = HttpError(422, <<"Input should be", "openai", "gemini", "groq", "claude">>)]
        ELSE /\ cfg' = [cfg EXCEPT ![t] = [pc |-> "store_client", config |-> config,
                                           client |-> LiteLLMClient(config.api_key, config.model, config.provider),
                                           name |-> <<>>]]
             /\ cfg_resp' = [cfg_resp EXCEPT ![t] = NoResp]
    /\ UNCHANGED <<md_client, md_model, convVars>>

\* md.llm_client = <the new client>
CfgStoreClient(t) ==
    /\ cfg[t].pc = "store_client"
    /\ md_client' = cfg[t].client
    /\ cfg' = [cfg EXCEPT ![t].pc = "load_name"]
    /\ UNCHANGED <<md_model, cfg_resp, convVars>>

\* line 145's right-hand side: md.llm_client.model_name, read from the global.
\* Nothing orders this read and the write that follows against the other
\* threads' writes (no lock), so another call may run in between.
CfgLoadName(t) ==
    /\ cfg[t].pc = "load_name"
    /\ cfg' = [cfg EXCEPT ![t].pc = "store_model", ![t].name = md_client.model_name]
    /\ UNCHANGED <<md_client, md_model, cfg_resp, convVars>>

\* md.llm_model = <the value read>; return {"status": "ok", ...}
CfgStoreModel(t) ==
    /\ cfg[t].pc = "store_model"
    /\ md_model' = cfg[t].name
    /\ cfg' = [cfg EXCEPT ![t].pc = "idle"]
    /\ cfg_resp' = [cfg_resp EXCEPT ![t] = [status |-> 200, kind |-> "json", detail |-> <<>>,
                                            body |-> <<"ok", cfg[t].config.provider>>]]
    /\ UNCHANGED <<md_client, convVars>>

NextLlm ==
    \/ \E t \in Threads : CfgCall(t)
    \/ \E t \in Threads : CfgStoreClient(t)
    \/ \E t \in Threads : CfgLoadName(t)
    \/ \E t \in Threads : CfgStoreModel(t)

SpecLlm == Init /\ [][NextLlm]_vars

(***************************************************************************)
(* Properties.                                                             *)
(***************************************************************************)
LogEvents == {log[k] : k \in 1..Len(log)}

Created == {e \in LogEvents : e.op = "create"}

Converted == {e \in LogEvents : e.op = "convert"}

\* the suffix of a temp path <<"tmp", name>> \o suffix
SuffixOf(path) == SubSeq(path, 3, Len(path))

\* C1: once a conversion request has completed, no temporary file the
\* request created (upload copy, snippet, zip entry, outer zip, or the .md
\* written for a download) is still on disk.
C1_NoTempFileRemains ==
    pc = "done" => \A e \in Created : ~ Exists(disk, e.path)

\* C2: in every conversion operation, an exception raised by the converter
\* is answered with a 4xx response whose detail is the converter's message.
C2_ConverterErrorIsClientError ==
    pc = "done" =>
        \A e \in Converted :
            MdConvert(e.content).raised =>
                /\ resp.status \in 400..499
                /\ resp.detail = MdConvert(e.content).msg

\* C3: /convert/file without download, converter succeeding: a success
\* response with the extracted text, the upload's original filename and
\* the byte size of the upload.
C3_SingleUploadResult ==
    (pc = "done" /\ req.endpoint = "file" /\ ~ req.download
        /\ ~ MdConvert(req.file.data).raised) =>
        /\ resp.status = 200
        /\ resp.body[1].markdown = TextOf(MdConvert(req.file.data))
        /\ resp.body[1].filename = req.file.filename
        /\ resp.body[1].bytes = GetSize(req.file.data)

\* the entries of an archive that are no directory markers, in listing order
NonDirs(entries) == SelectSeq(entries, LAMBDA en : en.name[Len(en.name)] # "/")

\* C4: /convert/zip on an archive whose N non-directory entries are all
\* accepted by the converter emits exactly N records, the i-th keyed by the
\* name of the i-th non-directory entry.
C4_ZipOneRecordPerEntry ==
    (pc = "done" /\ req.endpoint = "zip" /\ req.file.data.iszip
        /\ \A k \in 1..Len(req.file.data.entries) :
              ~ MdConvert(req.file.data.entries[k].data).raised) =>
        LET nd == NonDirs(req.file.data.entries)
        IN  /\ resp.status = 200
            /\ Len(resp.body) = Len(nd)
            /\ \A k \in 1..Len(nd) : resp.body[k].filename = nd[k].name

\* C5: /convert/files on K uploads, all accepted, returns exactly K results
\* in upload order in both output shapes; K = 0 returns an empty collection
\* without error.
C5_FilesOneResultPerUpload ==
    (pc = "done" /\ req.endpoint = "files"
        /\ \A k \in 1..Len(req.files) : ~ MdConvert(req.files[k].data).raised) =>
        /\ resp.status = 200
        /\ Len(resp.body) = Len(req.files)
        /\ \A k \in 1..Len(req.files) :
              resp.body[k].markdown = TextOf(MdConvert(req.files[k].data))

\* a field that is absent or the empty string
EmptyField(field) == field = NoStr \/ field = Str(<<>>)

\* C6: /convert/text with all four fields empty answers a validation error
\* and does no file I/O: nothing is created, the converter is not called.
C6_EmptyTextRejected ==
    (pc = "done" /\ req.endpoint = "text"
        /\ EmptyField(req.payload.html) /\ EmptyField(req.payload.csv)
        /\ EmptyField(req.payload.json_text) /\ EmptyField(req.payload.xml)) =>
        /\ resp.status = 400
        /\ resp.kind = "error"
        /\ log = <<>>

\* C6 witness: the fields are empty strings (not absent) and the request was refused
C6_Witness ==
    /\ pc = "done" /\ req.endpoint = "text"
    /\ req.payload.html = Str(<<>>) /\ req.payload.csv = NoStr
    /\ req.payload.json_text = Str(<<>>) /\ req.payload.xml = NoStr
    /\ resp.status = 400 /\ log = <<>>

TextFieldNames == {"html", "csv", "json_text", "xml"}

ExtOf(name) ==
    CASE name = "html" -> <<".", "html">>
      [] name = "csv" -> <<".", "csv">>
      [] name = "json_text" -> <<".", "json">>
      [] name = "xml" -> <<".", "xml">>

\* C7: /convert/text with exactly one field populated, the others absent or
\* empty: the file written and converted holds that field's content and has
\* that field's extension.
C7_SnippetOfPopulatedField ==
    (pc = "done" /\ req.endpoint = "text") =>
        \A n \in TextFieldNames :
            (/\ ~ EmptyField(req.payload[n])
             /\ \A m \in TextFieldNames \ {n} : EmptyField(req.payload[m])) =>
                /\ \E e \in Created :
                      e.content = req.payload[n].val /\ SuffixOf(e.path) = ExtOf(n)
                /\ \A e \in Created \cup Converted : e.content = req.payload[n].val

\* C8 (as stated): the record of entry i has reached the caller before
\* the conversion of entry i+1 begins, and stays delivered when a later
\* entry fails.
C8_RecordsStreamed ==
    (req.endpoint = "zip" /\ loc.i >= 2) =>
        /\ Len(resp.body) >= loc.i - 1
        /\ \A k \in 1..(loc.i - 1) : resp.body[k].filename = loc.names[k]

\* C8 (amended): no record reaches the caller while entries are being
\* converted, the records are held in the handler's list; when an entry
\* fails, the caller gets the 400 error alone and the records of the
\* entries converted before it are dropped.
C8_RecordsHeldUntilEnd ==
    req.endpoint = "zip" =>
        /\ pc = "zip_loop" => (resp = NoResp /\ Len(loc.lines) = loc.i - 1)
        /\ (pc = "done" /\ req.file.data.iszip /\ loc.i <= Len(loc.names)) =>
              (resp.status = 400 /\ resp.body = <<>>)

\* C8 witness: the second entry failed after the first was converted
C8_Witness ==
    /\ pc = "done" /\ req.endpoint = "zip"
    /\ Len(loc.names) >= 2 /\ loc.i = 2 /\ Len(loc.lines) = 1
    /\ resp.status = 400 /\ resp.body = <<>>

\* C9: a /config/llm call whose provider is outside {openai, gemini, groq,
\* claude} fails validation and leaves md.llm_client and md.llm_model as
\* they were.
C9_InvalidProviderRejected ==
    [][\A t \in Threads :
          (/\ cfg[t].pc = "idle"
           /\ <<cfg[t], cfg_resp[t]>> # <<cfg'[t], cfg_resp'[t]>>
           /\ cfg'[t].config.provider \notin {"openai", "gemini", "groq", "claude"}) =>
              /\ cfg_resp'[t].status = 422
              /\ cfg'[t].pc = "idle"
              /\ md_client' = md_client
              /\ md_model' = md_model]_vars

\* C9 witness: a call naming "azure" was refused while a configuration was installed
C9_Witness ==
    \E t \in Threads :
        /\ cfg[t].config.provider = "azure"
        /\ cfg_resp[t].status = 422
        /\ md_client.provider = "gemini"
        /\ md_model = md_client.model_name

\* C10: whenever no /config/llm call is in progress, md.llm_model is the
\* model_name of md.llm_client: both come from the same call.
C10_ClientAndModelFromOneCall ==
    (\A t \in Threads : cfg[t].pc = "idle") => md_model = md_client.model_name

====
